---------------------------- MODULE Spec2Model ----------------------------
(***************************************************************************)
(* Model of the evaluation pipeline of src/src/App.tsx: the React state of *)
(* the App component (step, idea, result, prototypeUrl, error), the two    *)
(* handlers evaluateIdea and reset, and the asynchronous runs of           *)
(* evaluateIdea, each cut at its two await points.                         *)
(*                                                                         *)
(* Vocabulary of the specification mapped onto the code:                   *)
(*   Idle      = step "landing" with error null                            *)
(*   Running   = step "loading"                                            *)
(*   Succeeded = step "results"                                            *)
(*   Failed    = step "landing" with error non-null                        *)
(***************************************************************************)
EXTENDS Naturals, Sequences, FiniteSets

(* ------------------------------ bounds --------------------------------- *)

\* Invocations of evaluateIdea that pass the blank check, over a behaviour.
MaxRuns == 2

(* --------------------------- nullable values --------------------------- *)

\* null of useState<T | null>(null); a non-null value v is Some(v).
None == <<>>

Some(v) == <<v>>

(* ------------------------------ idea text ------------------------------ *)

\* The texts typed into the textarea: empty, whitespace only, and a text that
\* is not blank, padded with whitespace.
Ideas == {<<>>, <<" ">>, <<" ", "a", " ">>}

RECURSIVE trimStart(_)
trimStart(s) ==
    IF s # <<>> /\ Head(s) = " " THEN trimStart(Tail(s)) ELSE s

RECURSIVE trimEnd(_)
trimEnd(s) ==
    IF s # <<>> /\ s[Len(s)] = " "
    THEN trimEnd(SubSeq(s, 1, Len(s) - 1))
    ELSE s

\* String.prototype.trim
trim(s) == trimEnd(trimStart(s))

\* !idea.trim() : the empty string is the only falsy string
isBlank(s) == trim(s) = <<>>

(* --------------------------- schema contract --------------------------- *)

SwotKeys == {"strengths", "weaknesses", "opportunities", "threats"}

RiskKeys == {"market", "financial", "operational", "competitive"}

TopKeys == {"businessName", "elevatorPitch", "swot", "risks", "successRate",
            "strategicSuggestions", "psychologicalAspects", "prototypePrompt"}

\* Every field RESPONSE_SCHEMA lists under a "required", as a path of keys.
RESPONSE_SCHEMA ==
    {<<k>> : k \in TopKeys}
    \cup {<<"swot", k>> : k \in SwotKeys}
    \cup {<<"risks", k>> : k \in RiskKeys}
    \cup {<<"risks", k, f>> : k \in RiskKeys, f \in {"score", "description"}}
    \cup {<<"psychologicalAspects", f>> :
             f \in {"founderMindset", "consumerPsychology"}}

IsPrefix(p, q) == Len(p) <= Len(q) /\ SubSeq(q, 1, Len(p)) = p


\* A decoded stage-1 payload: the required fields it carries, and the value
\* template interpolation gives for data.prototypePrompt.
Undefined == "undefined"

Prompts == {"p1", "p2"}

Object(fields, prompt) ==
    [fields |-> fields,
     prototypePrompt |-> IF <<"prototypePrompt">> \in fields
                         THEN prompt ELSE Undefined]

\* The complete payload with the field at path p (and all below it) left out.
Omit(p) == {q \in RESPONSE_SCHEMA : ~IsPrefix(p, q)}

EmptyObject == Object({}, Undefined)

\* Paths whose omission the gateway is modelled to produce.
OmittedPaths ==
    {<<"successRate">>, <<"prototypePrompt">>, <<"risks">>, <<"swot", "threats">>}

Payloads ==
    {Object(RESPONSE_SCHEMA, v) : v \in Prompts}
    \cup {Object(Omit(p), "p1") : p \in OmittedPaths}
    \cup {EmptyObject}

Conforms(data) == RESPONSE_SCHEMA \subseteq data.fields

(* --------------------------- gateway responses ------------------------- *)

\* err.message of a rejected call; "" stands for a failure with no message.
Messages == {"", "quota exceeded"}

\* response.text of stage 1: absent or empty, not JSON, or a JSON object.
Texts ==
    {[kind |-> "empty", value |-> EmptyObject],
     [kind |-> "garbage", value |-> EmptyObject]}
    \cup {[kind |-> "json", value |-> p] : p \in Payloads}

Stage1Responses ==
    {[rejected |-> TRUE, message |-> m, text |-> [kind |-> "empty", value |-> EmptyObject]] :
        m \in Messages}
    \cup {[rejected |-> FALSE, message |-> "", text |-> t] : t \in Texts}

\* response.text || '{}'
TextOrDefault(t) ==
    IF t.kind = "empty" THEN [kind |-> "json", value |-> EmptyObject] ELSE t

SyntaxErrorMessage == "Unexpected token"

\* JSON.parse: the decoded value, or a SyntaxError
JSONparse(t) ==
    IF t.kind = "json"
    THEN [threw |-> FALSE, value |-> t.value, message |-> ""]
    ELSE [threw |-> TRUE, value |-> EmptyObject, message |-> SyntaxErrorMessage]

ImageData == {"i1", "i2"}

\* A content part of the stage-2 response: text only, or inline image data.
TextPart == [inlineData |-> None]

ImagePart(d) == [inlineData |-> Some(d)]

\* candidates?.[0]?.content?.parts || [] of the stage-2 responses modelled: no
\* parts, text only, one image, an image after a text part, two images.
PartLists ==
    {<<>>, <<TextPart>>, <<ImagePart("i1")>>, <<TextPart, ImagePart("i2")>>,
     <<ImagePart("i1"), ImagePart("i2")>>, <<ImagePart("i2"), ImagePart("i1")>>}

Stage2Responses ==
    {[rejected |-> TRUE, message |-> m, parts |-> <<>>] : m \in Messages}
    \cup {[rejected |-> FALSE, message |-> "", parts |-> ps] :
             ps \in PartLists}

(* ----------------------------- requests -------------------------------- *)

Stage1Request(text) ==
    [model |-> "gemini-3-flash-preview",
     contents |-> <<"Evaluate this startup idea: ", text>>,
     aspectRatio |-> None]

\* Faulty variant of Stage2Request: the contents also carry the payload's other
\* fields.  C18_Stage2RequestFromPromptOnly does not hold of it.
Stage2RequestWithFields(data) ==
    [model |-> "gemini-2.5-flash-image",
     contents |-> <<"A high-quality 3D product render or sleek app UI prototype for: ",
                    data.prototypePrompt, data.fields,
                    ". Cinematic lighting, professional studio setup, 4k, minimalist aesthetic.">>,
     aspectRatio |-> Some("16:9")]

\* ai.models.generateContent({model, contents: {parts: [{text}]},
\*                            config: {imageConfig: {aspectRatio: "16:9"}}})
Stage2Request(data) ==
    [model |-> "gemini-2.5-flash-image",
     contents |-> <<"A high-quality 3D product render or sleek app UI prototype for: ",
                    data.prototypePrompt,
                    ". Cinematic lighting, professional studio setup, 4k, minimalist aesthetic.">>,
     aspectRatio |-> Some("16:9")]

\* Faulty variant of FirstInline: the loop without its break, so that the last
\* part with inline data wins.  C11_FirstImageShown does not hold of it.
RECURSIVE FirstInlineNoBreak(_)
FirstInlineNoBreak(parts) ==
    IF parts = <<>> THEN None
    ELSE IF FirstInlineNoBreak(Tail(parts)) # None
         THEN FirstInlineNoBreak(Tail(parts))
         ELSE Head(parts).inlineData

\* The first part with inline data, as the loop with its break finds it.
RECURSIVE FirstInline(_)
FirstInline(parts) ==
    IF parts = <<>> THEN None
    ELSE IF Head(parts).inlineData # None THEN Head(parts).inlineData
    ELSE FirstInline(Tail(parts))

DataUrl(d) == <<"data:image/png;base64,", d>>

FallbackMessage == "An error occurred during evaluation."

\* Faulty variant of ErrorText: the failure's own message is dropped.
\* C6_Stage1RejectionFails does not hold of it.
ErrorTextFallbackOnly(message) == FallbackMessage

\* err.message || "An error occurred during evaluation."
ErrorText(message) == IF message = "" THEN FallbackMessage ELSE message


(* ----------------------------- risk chart ------------------------------ *)

\* risks.<key>.score of the payloads modelled, by the payload's prototypePrompt:
\* scores from 1 to 10, all different within a payload.
RiskScores ==
    [p \in Prompts \cup {Undefined} |->
        IF p = "p1"
        THEN [market |-> 3, financial |-> 7, operational |-> 5, competitive |-> 9]
        ELSE IF p = "p2"
        THEN [market |-> 10, financial |-> 1, operational |-> 4, competitive |-> 8]
        ELSE [market |-> 2, financial |-> 6, operational |-> 8, competitive |-> 4]]

\* data.risks.<key>.score: undefined when the payload lacks the field
ScoreOf(data, key) ==
    IF <<"risks", key, "score">> \in data.fields
    THEN RiskScores[data.prototypePrompt][key]
    ELSE Undefined

fullMark == 10

\* Faulty variant of riskData: the market and financial scores exchanged.
\* C16_RiskChartData does not hold of it.
riskDataExchanged(result2) ==
    IF result2 # <<>>
    THEN <<[subject |-> "Market", A |-> ScoreOf(result2[1], "financial"),
            fullMark |-> fullMark],
           [subject |-> "Financial", A |-> ScoreOf(result2[1], "market"),
            fullMark |-> fullMark],
           [subject |-> "Operational", A |-> ScoreOf(result2[1], "operational"),
            fullMark |-> fullMark],
           [subject |-> "Competitive", A |-> ScoreOf(result2[1], "competitive"),
            fullMark |-> fullMark]>>
    ELSE <<>>

\* const riskData = result ? [...] : []  (for a result whose risks.<key> exist;
\* for any other the expression throws, see AppRenderThrows)
riskData(result2) ==
    IF result2 # <<>>
    THEN <<[subject |-> "Market", A |-> ScoreOf(result2[1], "market"),
            fullMark |-> fullMark],
           [subject |-> "Financial", A |-> ScoreOf(result2[1], "financial"),
            fullMark |-> fullMark],
           [subject |-> "Operational", A |-> ScoreOf(result2[1], "operational"),
            fullMark |-> fullMark],
           [subject |-> "Competitive", A |-> ScoreOf(result2[1], "competitive"),
            fullMark |-> fullMark]>>
    ELSE <<>>

(* ------------------------------- state --------------------------------- *)

VARIABLES
    step,          \* useState 'landing' | 'loading' | 'results'
    idea,          \* useState('')
    result,        \* useState<EvaluationResult | null>
    prototypeUrl,  \* useState<string | null>
    error,         \* useState<string | null>
    runs,          \* the invocations of evaluateIdea that passed the blank check
    issued,        \* the gateway call issued most recently, if any
    view,          \* the child AnimatePresence currently keeps mounted
    landingIdea,   \* the idea the mounted landing view's onClick closure holds
    crashed,       \* a render threw: React has unmounted the root
    last           \* the part of evaluateIdea or reset that ran last, with the
                   \* input it ran on

vars == <<step, idea, result, prototypeUrl, error, runs, issued, view,
          landingIdea, crashed, last>>

Steps == {"landing", "loading", "results"}

\* What `last` records.  op: "return" (evaluateIdea's early return),
\* "evaluateIdea" (up to the first await), "stage1" (first await to second),
\* "stage2" (second await to the end), "catch stage1" / "catch parse" /
\* "catch stage2" (the catch block, by what threw), "reset".  idea: the text
\* evaluateIdea read; message: err.message of the error caught; text: the kind
\* of response.text the stage-1 call resolved with; parts: the content parts
\* the stage-2 call resolved with.
Did(op, text, message, kind) ==
    [op |-> op, idea |-> text, message |-> message, text |-> kind,
     parts |-> <<>>]

\* PipelineState of the specification, read off the component state.
Idle == step = "landing" /\ error = None

Running == step = "loading"

Succeeded == step = "results"

Failed == step = "landing" /\ error # None

\* A run whose gateway call has been issued and has not settled.
Outstanding(r) == runs[r].pc \in {"stage1", "stage2"}

(* ------------------------------ rendering ------------------------------ *)

\* The render of App throws a TypeError: riskData reads result.risks.<key>.score
\* whenever result is set; the results JSX reads result.swot.<key>,
\* result.strategicSuggestions.map and result.psychologicalAspects.<key>.
AppRenderThrows(step2, result2) ==
    /\ result2 # None
    /\ \/ \E k \in RiskKeys : <<"risks", k>> \notin result2[1].fields
       \/ /\ step2 = "results"
          /\ \/ <<"swot">> \notin result2[1].fields
             \/ <<"strategicSuggestions">> \notin result2[1].fields
             \/ <<"psychologicalAspects">> \notin result2[1].fields

\* The render of the results view throws: SWOTSection calls items.map.
ViewRenderThrows(result2) ==
    /\ result2 # None
    /\ \E k \in SwotKeys : <<"swot", k>> \notin result2[1].fields

\* The landing and loading views carry an exit animation; the results view
\* carries none and is removed at once.
HasExit(v) == v \in {"landing", "loading"}

\* AnimatePresence mode="wait": a child that is no longer the current one stays
\* mounted, with the props of its last render, until its exit animation ends.
ViewAfter(step2) ==
    IF step2 = view \/ HasExit(view) THEN view ELSE step2

\* The commit that follows a handler: App renders with the new state.
Render(step2, idea2, result2) ==
    /\ crashed' = AppRenderThrows(step2, result2)
    /\ view' = ViewAfter(step2)
    /\ landingIdea' = IF step2 = "landing" /\ ViewAfter(step2) = "landing"
                      THEN idea2 ELSE landingIdea

\* The exit animation ends: AnimatePresence mounts the current child.
Present ==
    /\ ~crashed
    /\ view # step
    /\ view' = step
    /\ landingIdea' = IF step = "landing" THEN idea ELSE landingIdea
    /\ crashed' = (step = "results" /\ ViewRenderThrows(result))
    /\ UNCHANGED <<step, idea, result, prototypeUrl, error, runs, issued, last>>

(* ------------------------------ handlers ------------------------------- *)

Init ==
    /\ step = "landing"
    /\ idea = <<>>
    /\ result = None
    /\ prototypeUrl = None
    /\ error = None
    /\ runs = <<>>
    /\ issued = None
    /\ view = "landing"
    /\ landingIdea = <<>>
    /\ crashed = FALSE
    /\ last = Did("init", <<>>, "", "")

\* onChange of the textarea: setIdea(e.target.value)
SetIdea(text) ==
    /\ ~crashed
    /\ view = "landing"
    /\ idea' = text
    /\ Render(step, text, result)
    /\ UNCHANGED <<step, result, prototypeUrl, error, runs, issued, last>>

\* Faulty variant of NewRun: both gateway calls issued up front.
\* C5_Stage1ThenStage2 does not hold of it.
NewRunBothIssued == [pc |-> "stage1", data |-> None, n1 |-> 1, n2 |-> 1]

\* A run at its first await: the stage-1 call issued, no stage-2 call yet.
\* n1 and n2 count the stage-1 and stage-2 calls the run has issued.
NewRun == [pc |-> "stage1", data |-> None, n1 |-> 1, n2 |-> 0]

\* Faulty variant of Rejects: the idea is tested without trim().
\* C4_BlankSubmitIgnored does not hold of it.
RejectsUntrimmed(text) == text = <<>>

\* if (!idea.trim()) return;
Rejects(text) == isBlank(text)

\* evaluateIdea up to its first await, invoked by the onClick of the mounted
\* landing view.  (The button's disabled attribute repeats the blank check.)
evaluateIdea ==
    /\ ~crashed
    /\ view = "landing"
    /\ IF Rejects(landingIdea)
       THEN /\ last' = Did("return", landingIdea, "", "")
            /\ UNCHANGED <<step, idea, result, prototypeUrl, error, runs,
                           issued, view, landingIdea, crashed>>
       ELSE /\ Len(runs) < MaxRuns
            /\ step' = "loading"
            /\ error' = None
            /\ runs' = Append(runs, NewRun)
            /\ issued' = Some([run |-> Len(runs) + 1, stage |-> 1,
                               request |-> Stage1Request(landingIdea)])
            /\ last' = Did("evaluateIdea", landingIdea, "", "")
            /\ Render("loading", idea, result)
            /\ UNCHANGED <<idea, result, prototypeUrl>>

\* setState on an unmounted component changes nothing.
Set(old, new) == IF crashed THEN old ELSE new

\* catch (err): setError(err.message || ...); setStep('landing')
Catch(r, message, where, kind) ==
    /\ runs' = [runs EXCEPT ![r].pc = "done", ![r].data = None]
    /\ error' = Set(error, Some(ErrorText(message)))
    /\ step' = Set(step, "landing")
    /\ last' = Did(where, <<>>, message, kind)
    /\ IF crashed
       THEN UNCHANGED <<view, landingIdea, crashed>>
       ELSE Render("landing", idea, result)
    /\ UNCHANGED <<idea, result, prototypeUrl, issued>>

\* The stage-1 call of run r settled with resp, and its data was decoded:
\* setResult(data), then the stage-2 call is issued.
Stage1Decoded(r, data, kind) ==
    /\ runs' = [runs EXCEPT ![r].pc = "stage2", ![r].data = Some(data),
                             ![r].n2 = @ + 1]
    /\ result' = Set(result, Some(data))
    /\ issued' = Some([run |-> r, stage |-> 2, request |-> Stage2Request(data)])
    /\ last' = Did("stage1", <<>>, "", kind)
    /\ IF crashed
       THEN UNCHANGED <<view, landingIdea, crashed>>
       ELSE Render(step, idea, Some(data))
    /\ UNCHANGED <<step, idea, prototypeUrl, error>>

\* evaluateIdea from the first await to the second.
Stage1Settles(r) ==
    /\ runs[r].pc = "stage1"
    /\ \E resp \in Stage1Responses :
          IF resp.rejected
          THEN Catch(r, resp.message, "catch stage1", "")
          ELSE LET parsed == JSONparse(TextOrDefault(resp.text))
               IN  IF parsed.threw
                   THEN Catch(r, parsed.message, "catch parse", resp.text.kind)
                   ELSE Stage1Decoded(r, parsed.value, resp.text.kind)

\* The stage-2 call resolved: the parts loop, then setStep('results').
Stage2Resolved(r, parts) ==
    /\ runs' = [runs EXCEPT ![r].pc = "done", ![r].data = None]
    /\ prototypeUrl' = Set(prototypeUrl,
                           IF FirstInline(parts) = None THEN prototypeUrl
                           ELSE Some(DataUrl(FirstInline(parts)[1])))
    /\ step' = Set(step, "results")
    /\ last' = [Did("stage2", <<>>, "", "") EXCEPT !.parts = parts]
    /\ IF crashed
       THEN UNCHANGED <<view, landingIdea, crashed>>
       ELSE Render("results", idea, result)
    /\ UNCHANGED <<idea, result, error, issued>>

\* evaluateIdea from the second await to its end.
Stage2Settles(r) ==
    /\ runs[r].pc = "stage2"
    /\ \E resp \in Stage2Responses :
          IF resp.rejected
          THEN Catch(r, resp.message, "catch stage2", "")
          ELSE Stage2Resolved(r, resp.parts)

\* Faulty variant of ResetShown: the Restart button rendered in every step.
\* C14_ResubmitFromFailed does not hold of it.
ResetShownAlways == TRUE

\* {step === 'results' && (<button onClick={reset} ...>)}
ResetShown == step = "results"

\* reset, invoked by the Restart button of the header (rendered while step is
\* 'results') or by the button at the foot of the results view.
reset ==
    /\ ~crashed
    /\ ResetShown
    /\ step' = "landing"
    /\ idea' = <<>>
    /\ result' = None
    /\ prototypeUrl' = None
    /\ last' = Did("reset", <<>>, "", "")
    /\ Render("landing", <<>>, None)
    /\ UNCHANGED <<error, runs, issued>>

Next ==
    \/ \E text \in Ideas : SetIdea(text)
    \/ evaluateIdea
    \/ \E r \in 1..Len(runs) : Stage1Settles(r)
    \/ \E r \in 1..Len(runs) : Stage2Settles(r)
    \/ reset
    \/ Present

Spec == Init /\ [][Next]_vars

\* Every gateway call issued settles: the promise awaited by run r resolves or
\* rejects, and the continuation of evaluateIdea then runs.
Settles(r) == r <= Len(runs) /\ (Stage1Settles(r) \/ Stage2Settles(r))

FairSpec == Spec /\ \A r \in 1..MaxRuns : WF_vars(Settles(r))


(* ------------------------------- claims -------------------------------- *)

RunIds == 1..Len(runs)

\* Run r took the step: its stage-1 call settled.
Stage1SettledIn(r) == runs[r].pc = "stage1" /\ runs'[r].pc # "stage1"

\* Run r took the step: its stage-2 call settled.
Stage2SettledIn(r) == runs[r].pc = "stage2" /\ runs'[r].pc = "done"

\* The step is an invocation of reset (only reset leaves "results" with
\* last.op "reset").
ResetStep == step = "results" /\ last'.op = "reset"

\* C1: if stage 1 returned a payload with every required field and the stage-2
\* call then rejects, the pipeline ends in Succeeded with the result of stage 1
\* as EvaluationResult and no PrototypeImage.
C1_Stage2RejectionSucceeds ==
    [][\A r \in RunIds :
          (/\ ~crashed
           /\ Stage2SettledIn(r)
           /\ Conforms(runs[r].data[1])
           /\ last'.op = "catch stage2")
          => (/\ step' = "results"
              /\ result' = runs[r].data
              /\ prototypeUrl' = None)]_vars

\* C2: a decoded stage-1 payload that lacks a required field is never stored as
\* EvaluationResult and never followed by a stage-2 call.
C2_IncompletePayloadFails ==
    /\ result # None => Conforms(result[1])
    /\ \A r \in RunIds : runs[r].n2 > 0 /\ runs[r].data # None
                            => Conforms(runs[r].data[1])

\* C3: single-flight: at most one run has a gateway call outstanding.
C3_SingleFlight ==
    Cardinality({r \in RunIds : Outstanding(r)}) <= 1

\* C4: evaluateIdea on an empty or whitespace-only idea issues no gateway call
\* and changes neither step, result, prototypeUrl nor error; a run is started
\* and a call issued only for an idea that is not blank.
C4_BlankSubmitIgnored ==
    [][/\ (last'.op = "return" /\ last' # last)
          => (/\ isBlank(last'.idea)
              /\ UNCHANGED <<step, result, prototypeUrl, error, runs, issued>>)
       /\ (Len(runs') > Len(runs) \/ (issued' # issued /\ issued'[1].stage = 1))
          => (/\ last'.op = "evaluateIdea"
              /\ ~isBlank(last'.idea)
              /\ ~isBlank(landingIdea))]_vars

\* C4 witness: evaluateIdea returned early on a whitespace-only idea in Idle,
\* and the pipeline is still Idle with no run started.
C4_Witness ==
    /\ last.op = "return"
    /\ last.idea = <<" ">>
    /\ Idle
    /\ runs = <<>>

\* C5: an accepted submit moves the pipeline to Running and issues the stage-1
\* call of a new run; every run issues exactly one stage-1 call and at most one
\* stage-2 call, and the stage-2 call only at the step at which its stage-1
\* call returns, so the two are never outstanding together.
C5_Stage1ThenStage2 ==
    [][/\ Len(runs') > Len(runs)
          => (/\ Len(runs') = Len(runs) + 1
              /\ step' = "loading"
              /\ runs'[Len(runs')].pc = "stage1"
              /\ issued' = Some([run |-> Len(runs'), stage |-> 1,
                                 request |-> Stage1Request(last'.idea)]))
       /\ \A r \in RunIds :
             /\ runs'[r].n1 = 1
             /\ runs'[r].n2 <= 1
             /\ runs'[r].pc = "stage1" => runs'[r].n2 = 0
             /\ runs'[r].n2 > runs[r].n2
                   => (/\ Stage1SettledIn(r)
                       /\ runs'[r].pc = "stage2"
                       /\ issued'[1].run = r /\ issued'[1].stage = 2)
       /\ \A r \in (1..Len(runs')) \ RunIds :
             runs'[r].n1 = 1 /\ runs'[r].n2 = 0]_vars

\* C5 witness: a run started from Idle has gone through stage 1 and waits for
\* its stage-2 call.
C5_Witness ==
    /\ Len(runs) = 1
    /\ runs[1].pc = "stage2"
    /\ runs[1].n1 = 1 /\ runs[1].n2 = 1
    /\ issued # None /\ issued[1].stage = 2
    /\ step = "loading"

\* C6: when the stage-1 call rejects, the pipeline is Failed, the run issues no
\* stage-2 call, and the error shown is the failure's message, or the fallback
\* text when the failure carries none.
C6_Stage1RejectionFails ==
    [][\A r \in RunIds :
          (/\ ~crashed
           /\ Stage1SettledIn(r)
           /\ last'.op = "catch stage1")
          => (/\ step' = "landing"
              /\ error' # None
              /\ error'[1] # ""
              /\ error'[1] = (IF last'.message = "" THEN FallbackMessage
                              ELSE last'.message)
              /\ runs'[r].pc = "done"
              /\ runs'[r].n2 = 0
              /\ issued' = issued)]_vars

\* C6 witness: a stage-1 rejection that carried a message is showing.
C6_Witness ==
    /\ last.op = "catch stage1"
    /\ last.message = "quota exceeded"
    /\ Failed
    /\ error = Some("quota exceeded")

\* C7: a stage-2 failure never sets the error message and never moves the
\* pipeline to Failed.
C7_Stage2FailureSilent ==
    [][\A r \in RunIds :
          (~crashed /\ Stage2SettledIn(r))
          => (error' = error /\ ~(step' = "landing" /\ error' # None))]_vars

\* C8: reset issued in Succeeded or Failed yields Idle with EvaluationResult,
\* PrototypeImage and the error message all null.
C8_ResetClearsAll ==
    [][ResetStep => (/\ step' = "landing"
                     /\ result' = None
                     /\ prototypeUrl' = None
                     /\ error' = None)]_vars

\* C9: in Failed no partial result is retained.
C9_FailedKeepsNothing ==
    (~crashed /\ Failed) => (result = None /\ prototypeUrl = None)

\* C10: a stage-1 text that cannot be decoded, an empty or missing one
\* included, moves the pipeline to Failed with a message, issues no stage-2
\* call, and stores no result.
C10_UndecodableTextFails ==
    [][\A r \in RunIds :
          (/\ ~crashed
           /\ Stage1SettledIn(r)
           /\ last'.text \in {"empty", "garbage"})
          => (/\ step' = "landing"
              /\ error' # None
              /\ runs'[r].n2 = 0
              /\ result' = result)]_vars


\* The indices of the parts of ps that carry inline image data.
ImageIndices(ps) == {i \in 1..Len(ps) : ps[i].inlineData # None}

\* C11: if stage 1 returned a complete payload and the stage-2 response has a
\* part with inline image data, the pipeline ends in Succeeded and prototypeUrl
\* carries the data of the first such part in response order.
C11_FirstImageShown ==
    [][\A r \in RunIds :
          (/\ ~crashed
           /\ Stage2SettledIn(r)
           /\ Conforms(runs[r].data[1])
           /\ last'.op = "stage2"
           /\ ImageIndices(last'.parts) # {})
          => LET ps == last'.parts
                 first == CHOOSE i \in ImageIndices(ps) :
                             \A j \in ImageIndices(ps) : i <= j
             IN  /\ step' = "results"
                 /\ prototypeUrl' = Some(<<"data:image/png;base64,",
                                           ps[first].inlineData[1]>>)]_vars

\* C11 witness: a stage-2 response with two image parts was received and the
\* first one is showing.
C11_Witness ==
    /\ last.op = "stage2"
    /\ last.parts = <<ImagePart("i1"), ImagePart("i2")>>
    /\ step = "results"
    /\ prototypeUrl = Some(DataUrl("i1"))
    /\ result # None /\ Conforms(result[1])


\* C12: if stage 1 returned a complete payload and the stage-2 response has no
\* part with inline image data, the pipeline ends in Succeeded with
\* EvaluationResult set, PrototypeImage null and the error message null.
C12_NoImageStillSucceeds ==
    [][\A r \in RunIds :
          (/\ ~crashed
           /\ Stage2SettledIn(r)
           /\ Conforms(runs[r].data[1])
           /\ last'.op = "stage2"
           /\ ImageIndices(last'.parts) = {})
          => (/\ step' = "results"
              /\ result' # None
              /\ prototypeUrl' = None
              /\ error' = None)]_vars

\* C13: reset issued while a run is in flight is a no-op: step, result,
\* prototypeUrl and error stay as they are.
C13_ResetWhileRunningIgnored ==
    [][(ResetStep /\ \E r \in RunIds : Outstanding(r))
          => UNCHANGED <<step, result, prototypeUrl, error>>]_vars

\* C15: a stage-2 call is issued only on the step at which the stage-1 call of
\* the same run returned a payload with every required field, and its request
\* is built from the prototypePrompt of that payload.
C15_Stage2FromValidResult ==
    [][\A r \in RunIds :
          runs'[r].n2 > runs[r].n2
          => (/\ Stage1SettledIn(r)
              /\ runs'[r].data # None
              /\ Conforms(runs'[r].data[1])
              /\ issued' = Some([run |-> r, stage |-> 2,
                                 request |-> Stage2Request(runs'[r].data[1])]))]_vars

\* C19: in every state where the pipeline is Succeeded, EvaluationResult is not
\* null.
C19_SucceededHasResult ==
    (~crashed /\ Succeeded) => result # None

\* C20: no stale image.  A run that stores its result while the pipeline is
\* Succeeded has produced no image yet, so none may be showing; and when a run
\* ends in Succeeded with an image showing, the result is that run's result and
\* the image is the one its stage-2 response carried.
C20_NoStaleImage ==
    [][\A r \in RunIds :
          /\ (~crashed /\ Stage1SettledIn(r) /\ runs'[r].pc = "stage2")
                => ~(step' = "results" /\ prototypeUrl' # None)
          /\ (/\ ~crashed
              /\ Stage2SettledIn(r)
              /\ step' = "results"
              /\ prototypeUrl' # None)
                => (/\ result' = runs[r].data
                    /\ ImageIndices(last'.parts) # {})]_vars


ChartKeys == <<"market", "financial", "operational", "competitive">>

ChartSubjects == <<"Market", "Financial", "Operational", "Competitive">>

\* C16: the risk chart data of a non-null result has four entries, in the order
\* market, financial, operational, competitive, each with fullMark 10 and the
\* score of its category as value; for a null result it is empty.
C16_RiskChartData ==
    ~crashed =>
        IF result = None
        THEN riskData(result) = <<>>
        ELSE /\ Len(riskData(result)) = 4
             /\ \A i \in 1..4 :
                   /\ riskData(result)[i].subject = ChartSubjects[i]
                   /\ riskData(result)[i].fullMark = 10
                   /\ riskData(result)[i].A = ScoreOf(result[1], ChartKeys[i])

\* C16 witness: the results of a complete payload are showing, the market
\* score 3 first and the competitive score 9 last.
C16_Witness ==
    /\ ~crashed
    /\ step = "results"
    /\ result # None
    /\ Conforms(result[1])
    /\ riskData(result)[1].A = 3
    /\ riskData(result)[4].A = 9

\* C17: after a stage-1 or stage-2 gateway call has failed, no further gateway
\* call is issued until a new submit is accepted; every accepted submit causes
\* at most one stage-1 call and at most one stage-2 call.  (Stated for the step
\* that follows the failure.)
C17_NoCallAfterFailure ==
    [][/\ (/\ last.op \in {"catch stage1", "catch stage2"}
           /\ \E r \in RunIds : runs'[r].n1 + runs'[r].n2 > runs[r].n1 + runs[r].n2)
          => Len(runs') > Len(runs)
       /\ \A r \in 1..Len(runs') : runs'[r].n1 <= 1 /\ runs'[r].n2 <= 1]_vars

\* C18: the stage-2 request is a function of prototypePrompt alone: the request
\* issued for a run's result is the request of every payload with the same
\* prototypePrompt, whatever its other fields and whatever the state.
C18_Stage2RequestFromPromptOnly ==
    [][\A r \in RunIds :
          (Stage1SettledIn(r) /\ runs'[r].pc = "stage2")
          => \A d \in Payloads :
                d.prototypePrompt = runs'[r].data[1].prototypePrompt
                => issued' = Some([run |-> r, stage |-> 2,
                                   request |-> Stage2Request(d)])]_vars

\* C18 witness: the stage-2 call of a run has been issued for a payload that has
\* the prototypePrompt "p1" and lacks other fields.
C18_Witness ==
    /\ issued # None
    /\ issued[1].stage = 2
    /\ runs[issued[1].run].pc = "stage2"
    /\ runs[issued[1].run].data # None
    /\ runs[issued[1].run].data[1].prototypePrompt = "p1"
    /\ ~Conforms(runs[issued[1].run].data[1])
    /\ issued[1].request = Stage2Request(Object(RESPONSE_SCHEMA, "p1"))

\* C21: the error message is non-null only in Failed: in every reachable
\* Running or Succeeded state, and in the landing step right after a reset, the
\* error message is null.
C21_ErrorOnlyInFailed ==
    ~crashed =>
        /\ (Running \/ Succeeded) => error = None
        /\ (last.op = "reset" /\ step = "landing") => error = None

\* C22: if every gateway call issued settles, the pipeline, once Running,
\* eventually is Succeeded or Failed; and it leaves Running only in a step in
\* which a gateway call settles.
C22_RunningEnds ==
    /\ Running ~> (Succeeded \/ Failed)
    /\ [][(Running /\ step' # "loading")
          => \E r \in RunIds : Stage1SettledIn(r) \/ Stage2SettledIn(r)]_vars

=============================================================================
